---------------------------- MODULE Spec2Model ----------------------------
(***************************************************************************)
(* SQL safety-validation pipeline of python-react-chat/backend:            *)
(* validators.py (ForbiddenKeywordsRule, OnlySelectStatementsRule,         *)
(* WhitelistedTablesRule, RuleExecutor) and its caller in main.py          *)
(* (handle_client_message).                                                *)
(*                                                                         *)
(* A Python str is a sequence of one-character strings.  A query is given  *)
(* as a sequence of lexical chunks; its text is the concatenation of the   *)
(* chunks' characters and its token stream is the one sqlparse's lexer     *)
(* yields for that text (Lexable keeps only the chunk sequences for which  *)
(* chunk borders are token borders).                                       *)
(***************************************************************************)
EXTENDS Integers, Sequences, FiniteSets, TLC

\* ------------------------------------------------------------------ bounds
\* Longest query, in chunks, handed to a single rule or to the handler.
MaxLen == 3
\* Longest rule list a RuleExecutor is constructed with.
MaxRules == 3
\* Concurrent callers sharing one RuleExecutor.
NumCallers == 2

\* ------------------------------------------------------- str operations
LowerCase ==
  <<"a","b","c","d","e","f","g","h","i","j","k","l","m",
    "n","o","p","q","r","s","t","u","v","w","x","y","z">>

UpperCase ==
  <<"A","B","C","D","E","F","G","H","I","J","K","L","M",
    "N","O","P","Q","R","S","T","U","V","W","X","Y","Z">>

\* str.lower() and str.upper(), one character.
LowerChar(c) ==
  IF \E i \in 1..26 : UpperCase[i] = c
  THEN LowerCase[CHOOSE i \in 1..26 : UpperCase[i] = c] ELSE c

UpperChar(c) ==
  IF \E i \in 1..26 : LowerCase[i] = c
  THEN UpperCase[CHOOSE i \in 1..26 : LowerCase[i] = c] ELSE c

Lower(s) == [i \in 1..Len(s) |-> LowerChar(s[i])]

Upper(s) == [i \in 1..Len(s) |-> UpperChar(s[i])]

\* The characters str.strip() removes when called without an argument.
WhitespaceChars == {" ", "\t", "\n", "\r"}

RECURSIVE LStrip(_, _)
LStrip(s, cs) ==
  IF s # <<>> /\ Head(s) \in cs THEN LStrip(Tail(s), cs) ELSE s

RECURSIVE RStrip(_, _)
RStrip(s, cs) ==
  IF s # <<>> /\ s[Len(s)] \in cs THEN RStrip(SubSeq(s, 1, Len(s) - 1), cs) ELSE s

\* str.strip(chars): leading and trailing characters of the set removed.
Strip(s, cs) == RStrip(LStrip(s, cs), cs)

\* Python's `k in s` on strings: k occurs in s as a contiguous substring.
Contains(s, k) ==
  \E i \in 1..(Len(s) - Len(k) + 1) : SubSeq(s, i, i + Len(k) - 1) = k

RECURSIVE Concat(_)
Concat(ss) == IF ss = <<>> THEN <<>> ELSE Head(ss) \o Concat(Tail(ss))

\* --------------------------------------------------------------- verdicts
\* A (bool, str) pair.  The str is a template and the value formatted into
\* it (empty when the message is a literal); raised is FALSE: the call returned.
Verdict(ok, text, arg) == [raised |-> FALSE, ok |-> ok, text |-> text, arg |-> arg]

\* len(message) == 0
IsEmptyMsg(v) == v.text = ""


\* ------------------------------------------------- sqlparse: token types
\* A token type is its path below sqlparse.tokens.Token.
T_Keyword == <<"Keyword">>

T_DML == <<"Keyword", "DML">>

T_DDL == <<"Keyword", "DDL">>

T_Name == <<"Name">>

T_Symbol == <<"Literal", "String", "Symbol">>

T_Wildcard == <<"Wildcard">>

T_Punctuation == <<"Punctuation">>

T_Whitespace == <<"Text", "Whitespace">>

\* `ttype in parent`: parent is ttype or one of its ancestors.
InType(ttype, parent) ==
  Len(parent) <= Len(ttype) /\ SubSeq(ttype, 1, Len(parent)) = parent

\* A leaf token as the lexer emits it.  cls is the Python class: statement.flatten()
\* yields leaves only, so every token a rule walks has cls "Token".
Tok(ttype, value) == [ttype |-> ttype, value |-> value, cls |-> "Token"]

is_keyword(tok) == InType(tok.ttype, T_Keyword)

is_whitespace(tok) == InType(tok.ttype, T_Whitespace)

\* Token.normalized: value.upper() for a keyword, the value itself otherwise.
normalized(tok) == IF is_keyword(tok) THEN Upper(tok.value) ELSE tok.value

\* isinstance(token, Parenthesis)
IsParenthesis(tok) == tok.cls = "Parenthesis"

\* ----------------------------------------------------- lexical chunks
Space == Tok(T_Whitespace, <<" ">>)

\* The lexer's tokens for each chunk's text.
ChunkTokens(c) ==
  CASE c = "SELFROM" -> << Tok(T_DML, <<"S","e","l","e","c","t">>), Space,
                           Tok(T_Wildcard, <<"*">>), Space,
                           Tok(T_Keyword, <<"f","r","o","m">>), Space >>
    [] c = "SELPOS"  -> << Tok(T_DML, <<"S","e","l","e","c","t">>), Space,
                           Tok(T_Wildcard, <<"*">>), Space,
                           Tok(T_Keyword, <<"f","r","o","m">>), Space,
                           Tok(T_Name, <<"p","o","s","i","t","i","o","n","s">>) >>
    [] c = "POS"     -> << Tok(T_Name, <<"p","o","s","i","t","i","o","n","s">>) >>
    [] c = "QPOS"    -> << Tok(T_Symbol,
                               <<"\"","P","o","s","i","t","i","o","n","s","\"">>) >>
    [] c = "SECRET"  -> << Tok(T_Name,
                               <<"s","e","c","r","e","t","_","t","a","b","l","e">>) >>
    [] c = "CREATED" -> << Tok(T_Name, <<"c","r","e","a","t","e","d","_","a","t">>) >>
    [] c = "COMMA"   -> << Tok(T_Punctuation, <<",">>) >>
    [] c = "SEMI"    -> << Tok(T_Punctuation, <<";">>) >>
    [] c = "JOIN"    -> << Space, Tok(T_Keyword, <<"J","O","I","N">>), Space >>
    [] c = "LJOIN"   -> << Space,
                           Tok(T_Keyword, <<"l","e","f","t"," ","j","o","i","n">>),
                           Space >>
    [] c = "DROP"    -> << Tok(T_DDL, <<"D","R","O","P">>), Space >>
    [] c = "SP"      -> << Space >>
    [] c = "SUBPOS"  -> << Tok(T_Punctuation, <<"(">>),
                           Tok(T_DML, <<"S","e","l","e","c","t">>), Space,
                           Tok(T_Wildcard, <<"*">>), Space,
                           Tok(T_Keyword, <<"f","r","o","m">>), Space,
                           Tok(T_Name, <<"p","o","s","i","t","i","o","n","s">>),
                           Tok(T_Punctuation, <<")">>) >>
    [] c = "DEEP"    -> << Tok(T_Punctuation, <<"(">>), Tok(T_Punctuation, <<")">>) >>

Chunks ==
  {"SELFROM", "SELPOS", "POS", "QPOS", "SECRET", "CREATED", "COMMA", "SEMI", "JOIN",
   "LJOIN", "DROP", "SP", "SUBPOS", "DEEP"}

RECURSIVE TokensOf(_)
TokensOf(q) == IF q = <<>> THEN <<>> ELSE ChunkTokens(Head(q)) \o TokensOf(Tail(q))

\* The str handed to the rules.
TextOf(q) == Concat([i \in 1..Len(TokensOf(q)) |-> TokensOf(q)[i].value])

WordChars ==
  {LowerCase[i] : i \in 1..26} \cup {UpperCase[i] : i \in 1..26} \cup {"_"}

ChunkText(c) == TextOf(<<c>>)

\* Two chunks may follow each other when the lexer would not read across their
\* border: two word characters would join into one name, two quoted names into one.
MayFollow(a, b) ==
  /\ ~(ChunkText(a)[Len(ChunkText(a))] \in WordChars /\ ChunkText(b)[1] \in WordChars)
  /\ ~(a = "QPOS" /\ b = "QPOS")

Lexable(q) == \A i \in 1..(Len(q) - 1) : MayFollow(q[i], q[i + 1])

SeqsUpTo(S, n) == UNION {[1..k -> S] : k \in 0..n}

\* ------------------------------------------------------ sqlparse: parse
\* An outcome of a Python call: a returned (bool, str) pair or a raised exception.
Raise(e) == [raised |-> TRUE, ok |-> FALSE, text |-> "", arg |-> e]

\* The statement splitter's change of nesting level at one token.
ChangeSplitLevel(tok) ==
  IF tok.ttype = T_Punctuation /\ tok.value = <<"(">> THEN 1
  ELSE IF tok.ttype = T_Punctuation /\ tok.value = <<")">> THEN -1
  ELSE 0

\* The token types that do not end the whitespace run after a ";" (compared by
\* equality: a newline is not among them).
EOS_TTYPE == {T_Whitespace, <<"Comment", "Single">>}

AllWhitespace(toks) == \A i \in 1..Len(toks) : is_whitespace(toks[i])

\* The statement splitter: a statement ends at a ";" outside brackets, takes the
\* whitespace that follows it, and a trailing statement of whitespace alone is dropped.
RECURSIVE SplitFrom(_, _, _, _, _, _)
SplitFrom(toks, i, level, consume_ws, cur, out) ==
  IF i > Len(toks)
  THEN IF cur # <<>> /\ ~AllWhitespace(cur) THEN Append(out, cur) ELSE out
  ELSE LET tok    == toks[i]
           flush  == consume_ws /\ tok.ttype \notin EOS_TTYPE
           out1   == IF flush THEN Append(out, cur) ELSE out
           cur1   == IF flush THEN <<>> ELSE cur
           level0 == IF flush THEN 0 ELSE level
           cws0   == IF flush THEN FALSE ELSE consume_ws
           level1 == level0 + ChangeSplitLevel(tok)
           cws1   == cws0 \/ (level1 <= 0 /\ tok.ttype = T_Punctuation
                                          /\ tok.value = <<";">>)
       IN  SplitFrom(toks, i + 1, level1, cws1, Append(cur1, tok), out1)

\* A query with a DEEP chunk stands for brackets nested beyond the interpreter's
\* recursion limit, on which sqlparse raises SQLParseError.
ParserRaises(q) == \E i \in 1..Len(q) : q[i] = "DEEP"

SQLParseError == <<"Maximum recursion depth exceeded">>

\* sqlparse.parse(sql_query): the tuple of statements, each the sequence of its
\* leaf tokens (statement.flatten()).
Parse(q) ==
  IF ParserRaises(q)
  THEN [raised |-> TRUE, error |-> SQLParseError, statements |-> <<>>]
  ELSE [raised |-> FALSE, error |-> <<>>,
        statements |-> SplitFrom(TokensOf(q), 1, 0, FALSE, <<>>, <<>>)]

NoToken == [ttype |-> <<>>, value |-> <<>>, cls |-> "None"]

\* statement.token_first(skip_ws=True): the first token that is not whitespace, or None.
TokenFirst(stmt) ==
  IF AllWhitespace(stmt) THEN NoToken
  ELSE stmt[CHOOSE i \in 1..Len(stmt) :
              /\ ~is_whitespace(stmt[i])
              /\ \A j \in 1..(i - 1) : is_whitespace(stmt[j])]

\* ---------------------------------------------------------------- rules
FORBIDDEN_KEYWORDS ==
  << <<"i","n","s","e","r","t"," ">>, <<"u","p","d","a","t","e"," ">>,
     <<"d","e","l","e","t","e"," ">>, <<"d","r","o","p"," ">>,
     <<"a","l","t","e","r"," ">>, <<"t","r","u","n","c","a","t","e"," ">>,
     <<"c","r","e","a","t","e"," ">>, <<"e","x","e","c"," ">>,
     <<"x","p","_">> >>

\* Mutant: the failing verdict carries no message.
ForbiddenKeywordsRule_EmptyFail(q) ==
  LET lower_query == Lower(Strip(TextOf(q), WhitespaceChars))
  IN  IF \E k \in 1..Len(FORBIDDEN_KEYWORDS) :
            Contains(lower_query, FORBIDDEN_KEYWORDS[k])
      THEN Verdict(FALSE, "", <<>>)
      ELSE Verdict(TRUE, "", <<>>)

\* ForbiddenKeywordsRule.validate
ForbiddenKeywordsRule(q) ==
  LET lower_query == Lower(Strip(TextOf(q), WhitespaceChars))
  IN  IF \E k \in 1..Len(FORBIDDEN_KEYWORDS) :
            Contains(lower_query, FORBIDDEN_KEYWORDS[k])
      THEN Verdict(FALSE,
             "Forbidden SQL keywords detected. Only SELECT queries are allowed.", <<>>)
      ELSE Verdict(TRUE, "", <<>>)

\* The except clause of a rule: an exception raised in the try body becomes a
\* failing verdict whose message is the template with the exception formatted in.
Except(outcome, template) ==
  IF outcome.raised THEN [raised |-> FALSE, ok |-> FALSE, text |-> template,
                          arg |-> outcome.arg]
  ELSE outcome

\* Mutant: only the statement at i is looked at, the later ones are not.
OnlySelectLoop_FirstOnly(parsed_statements, i) ==
  IF i > Len(parsed_statements) THEN Verdict(TRUE, "", <<>>)
  ELSE LET first_token == TokenFirst(parsed_statements[i])
       IN  IF first_token = NoToken
           THEN Verdict(FALSE,
                  "Invalid SQL statement structure: Cannot determine statement type.",
                  <<>>)
           ELSE IF normalized(first_token) # <<"S","E","L","E","C","T">>
           THEN Verdict(FALSE,
                  "Forbidden statement type '{}' detected. Only SELECT queries are allowed.",
                  normalized(first_token))
           ELSE Verdict(TRUE, "", <<>>)

\* The for loop of OnlySelectStatementsRule.validate, from statement i on.
RECURSIVE OnlySelectLoop(_, _)
OnlySelectLoop(parsed_statements, i) ==
  IF i > Len(parsed_statements) THEN Verdict(TRUE, "", <<>>)
  ELSE LET first_token == TokenFirst(parsed_statements[i])
       IN  IF first_token = NoToken
           THEN Verdict(FALSE,
                  "Invalid SQL statement structure: Cannot determine statement type.",
                  <<>>)
           ELSE IF normalized(first_token) # <<"S","E","L","E","C","T">>
           THEN Verdict(FALSE,
                  "Forbidden statement type '{}' detected. Only SELECT queries are allowed.",
                  normalized(first_token))
           ELSE OnlySelectLoop(parsed_statements, i + 1)

\* The try body of OnlySelectStatementsRule.validate.
OnlySelectTry(q) ==
  LET parsed == Parse(q)
  IN  IF parsed.raised THEN Raise(parsed.error)
      ELSE IF parsed.statements = <<>>
      THEN Verdict(FALSE, "No valid SQL statements found.", <<>>)
      ELSE OnlySelectLoop(parsed.statements, 1)

\* OnlySelectStatementsRule.validate
OnlySelectStatementsRule(q) ==
  Except(OnlySelectTry(q), "SQL parsing error during statement type check: {}")

\* WhitelistedTablesRule.__init__: the allowed names, lower-cased.
NewWhitelistedTablesRule(allowed_tables) ==
  [kind |-> "WhitelistedTablesRule",
   allowed_tables |-> [i \in 1..Len(allowed_tables) |-> Lower(allowed_tables[i])]]

NewForbiddenKeywordsRule ==
  [kind |-> "ForbiddenKeywordsRule", allowed_tables |-> <<>>]

NewOnlySelectStatementsRule ==
  [kind |-> "OnlySelectStatementsRule", allowed_tables |-> <<>>]

\* The while loop after a FROM/JOIN keyword at index i: the index of the next token
\* that is not whitespace, or 0 for None.
NextNonWhitespace(flattened_tokens, i) ==
  IF \E j \in (i + 1)..Len(flattened_tokens) : ~is_whitespace(flattened_tokens[j])
  THEN CHOOSE j \in (i + 1)..Len(flattened_tokens) :
         /\ ~is_whitespace(flattened_tokens[j])
         /\ \A k \in (i + 1)..(j - 1) : is_whitespace(flattened_tokens[k])
  ELSE 0

\* The backtick character (a TLA+ string cannot hold it: it is named instead).
Backtick == "BACKTICK"

\* table_name_candidate_token.normalized.strip('"').strip("'").strip(backtick).lower()
TableName(tok) ==
  Lower(Strip(Strip(Strip(normalized(tok), {"\""}), {"'"}), {Backtick}))

InList(x, xs) == \E i \in 1..Len(xs) : xs[i] = x

\* Mutant: a FROM/JOIN with no token after it is passed over instead of failing.
RECURSIVE WhitelistLoop_SkipsMissing(_, _, _)
WhitelistLoop_SkipsMissing(allowed_tables, flattened_tokens, i) ==
  IF i > Len(flattened_tokens) THEN Verdict(TRUE, "", <<>>)
  ELSE LET token == flattened_tokens[i]
           c     == NextNonWhitespace(flattened_tokens, i)
       IN  IF is_keyword(token)
              /\ normalized(token) \in {<<"F","R","O","M">>, <<"J","O","I","N">>}
              /\ c # 0
              /\ ~IsParenthesis(flattened_tokens[c])
              /\ ~InList(TableName(flattened_tokens[c]), allowed_tables)
           THEN Verdict(FALSE, "Access to table/object '{}' is not allowed.",
                        TableName(flattened_tokens[c]))
           ELSE WhitelistLoop_SkipsMissing(allowed_tables, flattened_tokens, i + 1)

\* The for loop of WhitelistedTablesRule.validate over the flattened tokens, from
\* index i on.
RECURSIVE WhitelistLoop(_, _, _)
WhitelistLoop(allowed_tables, flattened_tokens, i) ==
  IF i > Len(flattened_tokens) THEN Verdict(TRUE, "", <<>>)
  ELSE LET token == flattened_tokens[i]
           c     == NextNonWhitespace(flattened_tokens, i)
       IN  IF is_keyword(token)
              /\ normalized(token) \in {<<"F","R","O","M">>, <<"J","O","I","N">>}
           THEN IF c = 0
                THEN Verdict(FALSE,
                       "Could not identify table name after FROM/JOIN clause.", <<>>)
                ELSE IF IsParenthesis(flattened_tokens[c])
                THEN WhitelistLoop(allowed_tables, flattened_tokens, i + 1)
                ELSE IF ~InList(TableName(flattened_tokens[c]), allowed_tables)
                THEN Verdict(FALSE, "Access to table/object '{}' is not allowed.",
                             TableName(flattened_tokens[c]))
                ELSE WhitelistLoop(allowed_tables, flattened_tokens, i + 1)
           ELSE WhitelistLoop(allowed_tables, flattened_tokens, i + 1)

\* The try body of WhitelistedTablesRule.validate: the first statement only.
WhitelistTry(allowed_tables, q) ==
  LET parsed == Parse(q)
  IN  IF parsed.raised THEN Raise(parsed.error)
      ELSE IF parsed.statements = <<>>
      THEN Verdict(FALSE, "No valid SQL statements found for table check.", <<>>)
      ELSE WhitelistLoop(allowed_tables, parsed.statements[1], 1)

\* Mutant: validate without its except clause.
WhitelistedTablesRule_NoExcept(allowed_tables, q) == WhitelistTry(allowed_tables, q)

\* WhitelistedTablesRule.validate
WhitelistedTablesRule(allowed_tables, q) ==
  Except(WhitelistTry(allowed_tables, q),
         "SQL parsing error during table whitelist check: {}")

\* rule.validate(sql_query, db_response): dispatch on the rule's class.
Validate(rule, q) ==
  CASE rule.kind = "ForbiddenKeywordsRule"    -> ForbiddenKeywordsRule(q)
    [] rule.kind = "OnlySelectStatementsRule" -> OnlySelectStatementsRule(q)
    [] rule.kind = "WhitelistedTablesRule"    ->
         WhitelistedTablesRule(rule.allowed_tables, q)

\* ------------------------------------------------------- configuration
\* The allowed tables handle_client_message constructs its WhitelistedTablesRule with.
DeployedTables ==
  << <<"c","l","i","e","n","t","_","a","c","a","d","e","m","i","c","_","d","a","t","a">>,
     <<"c","l","i","e","n","t","_","i","n","f","o","_","v","i","e","w">>,
     <<"c","l","i","e","n","t","_","p","o","s","i","t","i","o","n","s">>,
     <<"p","o","s","i","t","i","o","n","s">> >>

\* The rule list handle_client_message constructs its RuleExecutor with.
DeployedRules ==
  << NewForbiddenKeywordsRule, NewOnlySelectStatementsRule,
     NewWhitelistedTablesRule(DeployedTables) >>

RuleInstances == {DeployedRules[i] : i \in 1..3}

RuleLists == SeqsUpTo(RuleInstances, MaxRules)

\* Queries of at most n chunks.
Queries(n) == {q \in SeqsUpTo(Chunks, n) : Lexable(q)}

\* What get_gemini_sql_response returns: response.text.strip().
GeneratedQueries ==
  {q \in Queries(MaxLen) : Strip(TextOf(q), WhitespaceChars) = TextOf(q)}

\* A sample of queries: one that every deployed rule passes, one that each rule is
\* the first to fail, one on which the parser raises, and the empty string.
SampleQueries ==
  { <<"SELPOS">>, <<"SELPOS", "JOIN", "QPOS">>, <<"DROP", "POS">>, <<"POS">>,
    <<"SELFROM", "SECRET">>, <<"SELFROM">>, <<"DEEP">>, <<>> }

\* The queries tried against an executor: each rule alone and the deployed list see
\* every query, the other rule lists the sample.
DirectQueries(rs) ==
  IF Len(rs) <= 1 \/ rs = DeployedRules THEN Queries(MaxLen) ELSE SampleQueries

Callers == 1..NumCallers

\* ---------------------------------------------------------------- state
VARIABLES
  engine,    \* database.engine is set: the connection was established at import
  rules,     \* RuleExecutor.rules of the executor in use
  pc,        \* per caller: where its handler or its execute_rules call stands
  sql,       \* per caller: the SQL string of the call (generated_sql)
  idx,       \* per caller: position of execute_rules' for loop in rules (1-based)
  log,       \* per caller: the validate calls of this execute_rules call, in order
  ret,       \* per caller: what execute_rules returned
  emitted,   \* per caller: the events sio.emit sent for the current message
  executed   \* per caller: the strings handed to execute_sql_query for the message

vars == <<engine, rules, pc, sql, idx, log, ret, emitted, executed>>

None == [raised |-> FALSE, ok |-> FALSE, text |-> "None", arg |-> <<>>]

\* An emitted event: its name, the literal part of its content and the verdict
\* message appended to it.
Event(name, content, v) ==
  [event |-> name, content |-> content, text |-> v.text, arg |-> v.arg]

NoMsg == [text |-> "", arg |-> <<>>]

\* The record of one rule.validate(sql_query, db_response) call: the position of
\* the rule in self.rules, the string it was given and its outcome.
Invoked(c, outcome) == [at |-> idx[c], q |-> sql[c], v |-> outcome]

\* Mutant: the loop does not return at a failing verdict; it keeps it and goes on.
RuleStepNext_NoFailFast(c, outcome) ==
  /\ log' = [log EXCEPT ![c] = Append(@, Invoked(c, outcome))]
  /\ idx' = [idx EXCEPT ![c] = @ + 1]
  /\ ret' = [ret EXCEPT ![c] = IF outcome.ok THEN @
                               ELSE Verdict(FALSE, outcome.text, outcome.arg)]
  /\ UNCHANGED pc

\* ------------------------------------------------- RuleExecutor.execute_rules
\* One iteration of `for rule in self.rules`: validate the rule at idx; a failing
\* verdict is returned at once, an exception leaves the call.
RuleStepNext(c, outcome) ==
  /\ log' = [log EXCEPT ![c] = Append(@, Invoked(c, outcome))]
  /\ IF outcome.raised
     THEN /\ pc' = [pc EXCEPT ![c] = "raised"]
          /\ ret' = [ret EXCEPT ![c] = outcome]
          /\ idx' = idx
     ELSE IF ~outcome.ok
     THEN /\ pc' = [pc EXCEPT ![c] = "returned"]
          /\ ret' = [ret EXCEPT ![c] = Verdict(FALSE, outcome.text, outcome.arg)]
          /\ idx' = idx
     ELSE /\ idx' = [idx EXCEPT ![c] = @ + 1]
          /\ UNCHANGED <<pc, ret>>

\* Mutant: the executor keeps the loop position in the object, one for all callers.
RuleStep_SharedCursor(c) ==
  /\ pc[c] = "execute_rules"
  /\ idx[1] <= Len(rules)
  /\ LET outcome == Validate(rules[idx[1]], sql[c])
     IN  /\ log' = [log EXCEPT ![c] = Append(@, Invoked(c, outcome))]
         /\ IF ~outcome.ok
            THEN /\ pc' = [pc EXCEPT ![c] = "returned"]
                 /\ ret' = [ret EXCEPT ![c] = Verdict(FALSE, outcome.text, outcome.arg)]
                 /\ idx' = idx
            ELSE /\ idx' = [idx EXCEPT ![1] = @ + 1, ![c] = idx[1] + 1]
                 /\ UNCHANGED <<pc, ret>>
  /\ UNCHANGED <<engine, rules, sql, emitted, executed>>

RuleStep(c) ==
  /\ pc[c] = "execute_rules"
  /\ idx[c] <= Len(rules)
  /\ RuleStepNext(c, Validate(rules[idx[c]], sql[c]))
  /\ UNCHANGED <<engine, rules, sql, emitted, executed>>

\* Mutant: the pass verdict carries the empty message.
AllPassed_EmptyMessage(c) ==
  /\ pc[c] = "execute_rules"
  /\ idx[c] > Len(rules)
  /\ ret' = [ret EXCEPT ![c] = Verdict(TRUE, "", <<>>)]
  /\ pc' = [pc EXCEPT ![c] = "returned"]
  /\ UNCHANGED <<engine, rules, sql, idx, log, emitted, executed>>

\* The loop is exhausted: every rule passed.
AllPassed(c) ==
  /\ pc[c] = "execute_rules"
  /\ idx[c] > Len(rules)
  /\ ret' = [ret EXCEPT ![c] = Verdict(TRUE, "All rules passed.", <<>>)]
  /\ pc' = [pc EXCEPT ![c] = "returned"]
  /\ UNCHANGED <<engine, rules, sql, idx, log, emitted, executed>>

\* A caller other than the handler calls validator.execute_rules(q).
Call(c, pool) ==
  /\ pc[c] = "ready"
  /\ \E q \in pool : sql' = [sql EXCEPT ![c] = q]
  /\ pc' = [pc EXCEPT ![c] = "execute_rules"]
  /\ UNCHANGED <<engine, rules, idx, log, ret, emitted, executed>>

\* The caller is done with the result; the call's locals are gone and the caller
\* may call the same executor again.
Finish(c) ==
  /\ pc[c] = "returned"
  /\ pc' = [pc EXCEPT ![c] = "ready"]
  /\ sql' = [sql EXCEPT ![c] = <<>>]
  /\ idx' = [idx EXCEPT ![c] = 1]
  /\ log' = [log EXCEPT ![c] = <<>>]
  /\ ret' = [ret EXCEPT ![c] = None]
  /\ UNCHANGED <<engine, rules, emitted, executed>>

\* ----------------------------------------------- handle_client_message
\* A client_message arrives: "/sql ..." without a database is refused at once,
\* "/sql ..." with one goes on to Gemini, any other message is a chat message.
Receive(c) ==
  /\ pc[c] \in {"idle", "done"}
  /\ executed' = [executed EXCEPT ![c] = <<>>]
  /\ log' = [log EXCEPT ![c] = <<>>]
  /\ ret' = [ret EXCEPT ![c] = None]
  /\ sql' = [sql EXCEPT ![c] = <<>>]
  /\ idx' = [idx EXCEPT ![c] = 1]
  /\ \E kind \in {"/sql", "chat"} :
       IF kind = "/sql" /\ ~engine
       THEN /\ emitted' = [emitted EXCEPT ![c] =
                 << Event("error", "Database not connected. Cannot execute SQL.", NoMsg) >>]
            /\ pc' = [pc EXCEPT ![c] = "done"]
       ELSE /\ emitted' = [emitted EXCEPT ![c] = <<>>]
            /\ pc' = [pc EXCEPT ![c] = IF kind = "/sql" THEN "generate" ELSE "chat"]
  /\ UNCHANGED <<engine, rules>>

\* "/ai ..." and plain messages: Gemini's reply, or its not-available text, is emitted.
ChatReply(c) ==
  /\ pc[c] = "chat"
  /\ \E available \in BOOLEAN :
       emitted' = [emitted EXCEPT ![c] =
         << Event(IF available THEN "chat" ELSE "error", "AI: ...", NoMsg) >>]
  /\ pc' = [pc EXCEPT ![c] = "done"]
  /\ UNCHANGED <<engine, rules, sql, idx, log, ret, executed>>

\* get_gemini_sql_response raised ValueError: the handler emits it as an error.
GenerateFails(c) ==
  /\ pc[c] = "generate"
  /\ emitted' = [emitted EXCEPT ![c] =
       << Event("error", "Error: Could not generate SQL query", NoMsg) >>]
  /\ pc' = [pc EXCEPT ![c] = "done"]
  /\ UNCHANGED <<engine, rules, sql, idx, log, ret, executed>>

\* get_gemini_sql_response returned generated_sql; the handler builds the rules and
\* the RuleExecutor and calls execute_rules(generated_sql).
Generate(c, pool) ==
  /\ pc[c] = "generate"
  /\ \E q \in pool : sql' = [sql EXCEPT ![c] = q]
  /\ rules' = DeployedRules
  /\ pc' = [pc EXCEPT ![c] = "execute_rules"]
  /\ idx' = [idx EXCEPT ![c] = 1]
  /\ UNCHANGED <<engine, log, ret, emitted, executed>>

\* Mutant: the handler does not look at is_valid and always goes on to execute.
Decide_IgnoresVerdict(c) ==
  /\ pc[c] \in {"returned", "raised"}
  /\ pc' = [pc EXCEPT ![c] = "execute_sql_query"]
  /\ UNCHANGED <<engine, rules, sql, idx, log, ret, emitted, executed>>

\* `if not is_valid`: the refusal is emitted and the handler returns; otherwise the
\* handler goes on to execute_sql_query.  An exception out of execute_rules is
\* caught by the handler's `except Exception`.
Decide(c) ==
  /\ pc[c] \in {"returned", "raised"}
  /\ IF pc[c] = "raised"
     THEN /\ emitted' = [emitted EXCEPT ![c] = Append(@,
                 Event("error", "An unexpected error occurred during SQL processing: ",
                       ret[c]))]
          /\ pc' = [pc EXCEPT ![c] = "done"]
     ELSE IF ~ret[c].ok
     THEN /\ emitted' = [emitted EXCEPT ![c] = Append(@,
                 Event("error", "Dangerous SQL. Cannot execute SQL.", ret[c]))]
          /\ pc' = [pc EXCEPT ![c] = "done"]
     ELSE /\ pc' = [pc EXCEPT ![c] = "execute_sql_query"]
          /\ UNCHANGED emitted
  /\ UNCHANGED <<engine, rules, sql, idx, log, ret, executed>>

\* asyncio.to_thread(execute_sql_query, generated_sql): the string is run against the
\* database; the result is emitted, or the ValueError the database raised.
ExecuteSql(c) ==
  /\ pc[c] = "execute_sql_query"
  /\ executed' = [executed EXCEPT ![c] = Append(@, sql[c])]
  /\ \E db_ok \in BOOLEAN :
       emitted' = [emitted EXCEPT ![c] = Append(@,
         IF db_ok THEN Event("sql_result", "SQL Query: ", NoMsg)
         ELSE Event("error", "Error: Database error executing query", NoMsg))]
  /\ pc' = [pc EXCEPT ![c] = "done"]
  /\ UNCHANGED <<engine, rules, sql, idx, log, ret>>

\* ------------------------------------------------------- specifications
InitCommon ==
  /\ sql = [c \in Callers |-> <<>>]
  /\ idx = [c \in Callers |-> 1]
  /\ log = [c \in Callers |-> <<>>]
  /\ ret = [c \in Callers |-> None]
  /\ emitted = [c \in Callers |-> <<>>]
  /\ executed = [c \in Callers |-> <<>>]

\* The server after start-up: one client session, no message handled yet.
Init ==
  /\ engine \in BOOLEAN
  /\ rules = <<>>
  /\ pc = [c \in Callers |-> IF c = 1 THEN "idle" ELSE "off"]
  /\ InitCommon

Next ==
  \E c \in {1} :
    \/ Receive(c)
    \/ ChatReply(c)
    \/ GenerateFails(c)
    \/ Generate(c, GeneratedQueries)
    \/ RuleStep(c)
    \/ AllPassed(c)
    \/ Decide(c)
    \/ ExecuteSql(c)

Spec == Init /\ [][Next]_vars

\* A RuleExecutor constructed with any rule list, called by one caller.
InitRules ==
  /\ engine = TRUE
  /\ rules \in RuleLists
  /\ pc = [c \in Callers |-> IF c = 1 THEN "ready" ELSE "off"]
  /\ InitCommon

NextRules ==
  \E c \in {1} :
    \/ Call(c, DirectQueries(rules))
    \/ RuleStep(c)
    \/ AllPassed(c)
    \/ Finish(c)

SpecRules == InitRules /\ [][NextRules]_vars

\* One RuleExecutor with the deployed rules, shared by concurrent callers.
InitShared ==
  /\ engine = TRUE
  /\ rules = DeployedRules
  /\ pc = [c \in Callers |-> "ready"]
  /\ InitCommon

NextShared ==
  \E c \in Callers :
    \/ Call(c, SampleQueries)
    \/ RuleStep(c)
    \/ AllPassed(c)
    \/ Finish(c)

SpecShared == InitShared /\ [][NextShared]_vars

\* =================================================================== claims
\* What a call of rule.validate is expected to return, computed apart from the
\* executor's loop.
Passes(rs, i, q) == Validate(rs[i], q).ok

\* The position of the first rule of rs that fails on q, 0 when none does.
FirstFailing(rs, q) ==
  IF \E i \in 1..Len(rs) : ~Passes(rs, i, q)
  THEN CHOOSE i \in 1..Len(rs) : ~Passes(rs, i, q) /\ \A j \in 1..(i - 1) : Passes(rs, j, q)
  ELSE 0

\* C2: execute_rules validates the rules strictly in list order and fail-fast: the
\* k-th validate call of a call is for the rule at position k, and it is made only if
\* every rule before it returned pass, so no rule is invoked after a failing one.
C2_FailFastOrder ==
  \A c \in Callers :
    \A k \in 1..Len(log[c]) :
      /\ log[c][k].at = k
      /\ \A j \in 1..(k - 1) : log[c][j].v.ok

\* C2 witness: the first rule of a longer list failed and the call returned after
\* that one validate call.
C2_Witness ==
  \E c \in Callers :
    /\ pc[c] = "returned"
    /\ Len(rules) >= 2
    /\ Len(log[c]) = 1
    /\ ~log[c][1].v.ok

\* C3: execute_rules returns (False, m) with m the message of the first failing rule
\* in list order, unchanged, when some rule fails, and (True, "All rules passed.")
\* when every rule passes, the empty rule list included.
C3_Result ==
  \A c \in Callers :
    pc[c] = "returned" =>
      LET f == FirstFailing(rules, sql[c])
      IN  IF f # 0
          THEN /\ ret[c].ok = FALSE
               /\ ret[c].text = Validate(rules[f], sql[c]).text
               /\ ret[c].arg = Validate(rules[f], sql[c]).arg
          ELSE ret[c] = Verdict(TRUE, "All rules passed.", <<>>)

\* C3 witness: a later rule of the list is the first to fail and its formatted
\* message is what the call returned.
C3_Witness ==
  \E c \in Callers :
    /\ pc[c] = "returned"
    /\ FirstFailing(rules, sql[c]) >= 2
    /\ ~ret[c].ok
    /\ ret[c].arg # <<>>

\* ---- what a SQL text means, apart from the rules' own walk of it
\* The statements of a token stream: the runs of tokens between semicolons that hold
\* more than whitespace.
RECURSIVE SqlStatements(_, _, _)
SqlStatements(toks, i, cur) ==
  IF i > Len(toks)
  THEN IF AllWhitespace(cur) THEN <<>> ELSE <<cur>>
  ELSE IF toks[i].ttype = T_Punctuation /\ toks[i].value = <<";">>
  THEN (IF AllWhitespace(cur) THEN <<>> ELSE <<cur>>) \o SqlStatements(toks, i + 1, <<>>)
  ELSE SqlStatements(toks, i + 1, Append(cur, toks[i]))

StatementsOf(q) == SqlStatements(TokensOf(q), 1, <<>>)

\* The index of the last token before j that is not whitespace, 0 when there is none.
PrevSignificant(toks, j) ==
  IF \E i \in 1..(j - 1) : ~is_whitespace(toks[i])
  THEN CHOOSE i \in 1..(j - 1) :
         ~is_whitespace(toks[i]) /\ \A k \in (i + 1)..(j - 1) : is_whitespace(toks[k])
  ELSE 0

EndsWith(s, t) == Len(t) <= Len(s) /\ SubSeq(s, Len(s) - Len(t) + 1, Len(s)) = t

IsSelectStatement(stmt) ==
  LET f == TokenFirst(stmt)
  IN  f # NoToken /\ f.ttype = T_DML /\ Lower(f.value) = <<"s","e","l","e","c","t">>

\* FROM, JOIN and the qualified joins (LEFT JOIN, INNER JOIN, ...).
IsFromOrJoin(tok) ==
  /\ InType(tok.ttype, T_Keyword)
  /\ \/ Lower(tok.value) = <<"f","r","o","m">>
     \/ EndsWith(Lower(tok.value), <<"j","o","i","n">>)

IsIdentifier(tok) == tok.ttype \in {T_Name, T_Symbol}

\* Token j names a table: an identifier right after FROM or a JOIN, or right after
\* the comma that follows another table of the same FROM list.
RECURSIVE IsTableRef(_, _)
IsTableRef(toks, j) ==
  /\ IsIdentifier(toks[j])
  /\ LET p == PrevSignificant(toks, j)
     IN  /\ p # 0
         /\ \/ IsFromOrJoin(toks[p])
            \/ /\ toks[p].value = <<",">>
               /\ PrevSignificant(toks, p) # 0
               /\ IsTableRef(toks, PrevSignificant(toks, p))

QuoteChars == {"\"", "'", Backtick}

\* A table name without its delimiters, case-folded.
BareName(tok) == Lower(Strip(tok.value, QuoteChars))

ReferencedTables(stmt) ==
  {BareName(stmt[j]) : j \in {i \in 1..Len(stmt) : IsTableRef(stmt, i)}}

AllowedNames(rule) == {rule.allowed_tables[i] : i \in 1..Len(rule.allowed_tables)}

\* C1 (as claimed; the code violates it): when execute_rules with the deployed rules
\* returns pass, every statement of the string is a SELECT and every table in a
\* FROM/JOIN position of any statement is in the allowed set.
C1_ZeroFalseNegatives ==
  \A c \in Callers :
    (pc[c] = "returned" /\ rules = DeployedRules /\ ret[c].ok) =>
      \A n \in 1..Len(StatementsOf(sql[c])) :
        /\ IsSelectStatement(StatementsOf(sql[c])[n])
        /\ ReferencedTables(StatementsOf(sql[c])[n]) \subseteq AllowedNames(rules[3])

\* C4: in handle_client_message, execute_sql_query is invoked only after execute_rules
\* returned pass for exactly the string that is executed (every rule was given that
\* string and passed it); after a failing verdict the only event is the error that
\* carries the verdict's message, and nothing is executed for that message.
C4_ConditionalExecution ==
  \A c \in Callers :
    /\ Len(executed[c]) <= 1
    /\ \A k \in 1..Len(executed[c]) :
         /\ ret[c] = Verdict(TRUE, "All rules passed.", <<>>)
         /\ Len(log[c]) = Len(rules)
         /\ \A j \in 1..Len(log[c]) : log[c][j].q = executed[c][k] /\ log[c][j].v.ok
    /\ (pc[c] = "done" /\ ret[c] # None /\ ~ret[c].ok) =>
         /\ executed[c] = <<>>
         /\ emitted[c] = << Event("error", "Dangerous SQL. Cannot execute SQL.", ret[c]) >>

\* C4 witness: a generated query passed the three rules and was executed.
C4_Witness ==
  \E c \in Callers :
    /\ pc[c] = "done"
    /\ executed[c] = <<sql[c]>>
    /\ Len(log[c]) = 3
    /\ emitted[c] # <<>>

\* ---- ForbiddenKeywordsRule
\* Forbidden substring k occurs in text at index i, letters compared without case.
OccursAt(text, k, i) ==
  /\ i + Len(k) - 1 <= Len(text)
  /\ \A m \in 1..Len(k) : LowerChar(text[i + m - 1]) = k[m]

HasForbidden(text) ==
  \E k \in 1..Len(FORBIDDEN_KEYWORDS) : \E i \in 1..Len(text) :
    OccursAt(text, FORBIDDEN_KEYWORDS[k], i)

\* An occurrence that ends at or before the last character that is not whitespace.
HasForbiddenBeforeEnd(text) ==
  \E k \in 1..Len(FORBIDDEN_KEYWORDS) : \E i \in 1..Len(text) :
    /\ OccursAt(text, FORBIDDEN_KEYWORDS[k], i)
    /\ \E j \in (i + Len(FORBIDDEN_KEYWORDS[k]) - 1)..Len(text) :
         text[j] \notin WhitespaceChars

\* The validate calls made on a rule of the given class.
CallsOf(c, kind) == {k \in 1..Len(log[c]) : rules[log[c][k].at].kind = kind}

\* C5 (as claimed; the code violates it): ForbiddenKeywordsRule fails on every string
\* that holds a forbidden substring anywhere, its very end included, and passes when
\* none occurs (a keyword that is only the prefix of a longer identifier is no
\* occurrence).
C5_ForbiddenKeywords ==
  \A c \in Callers : \A k \in CallsOf(c, "ForbiddenKeywordsRule") :
    log[c][k].v.ok <=> ~HasForbidden(TextOf(log[c][k].q))

\* What validate does instead, strip() coming before the scan: it fails exactly on the
\* strings that hold, without regard to case, a forbidden substring ending at or
\* before the string's last non-whitespace character; a keyword whose space belongs to
\* the trailing whitespace of the string is not detected.
ForbiddenKeywordsActual ==
  \A c \in Callers : \A k \in CallsOf(c, "ForbiddenKeywordsRule") :
    log[c][k].v.ok <=> ~HasForbiddenBeforeEnd(TextOf(log[c][k].q))

\* A string that ends with "DROP " after other text passed the rule.
ForbiddenKeywordsMissed ==
  \E c \in Callers : \E k \in CallsOf(c, "ForbiddenKeywordsRule") :
    /\ HasForbidden(TextOf(log[c][k].q))
    /\ Len(log[c][k].q) >= 2
    /\ log[c][k].v.ok

\* ---- OnlySelectStatementsRule
AllFirstTokensSelect(statements) ==
  \A n \in 1..Len(statements) :
    /\ TokenFirst(statements[n]) # NoToken
    /\ normalized(TokenFirst(statements[n])) = <<"S","E","L","E","C","T">>

\* C6: for an input the parser turns into statements, OnlySelectStatementsRule fails
\* when there is no statement, when a statement has no first non-whitespace token, or
\* when a statement's first token does not normalize to SELECT; otherwise it passes
\* with the empty message.
C6_OnlySelect ==
  \A c \in Callers : \A k \in CallsOf(c, "OnlySelectStatementsRule") :
    ~ParserRaises(log[c][k].q) =>
      LET statements == Parse(log[c][k].q).statements
          v          == log[c][k].v
      IN  /\ v.ok <=> (statements # <<>> /\ AllFirstTokensSelect(statements))
          /\ v.ok => IsEmptyMsg(v)
          /\ ~v.ok => ~IsEmptyMsg(v)

\* C6 witness: the first statement is a SELECT, a later one is not, and the rule failed.
C6_Witness ==
  \E c \in Callers : \E k \in CallsOf(c, "OnlySelectStatementsRule") :
    LET statements == Parse(log[c][k].q).statements
    IN  /\ Len(statements) >= 2
        /\ AllFirstTokensSelect(<<statements[1]>>)
        /\ ~log[c][k].v.ok
        /\ log[c][k].v.arg = <<"D","R","O","P">>

\* ---- WhitelistedTablesRule
\* Every FROM and JOIN of the statement is followed by an identifier.
EveryFromHasTable(stmt) ==
  \A i \in 1..Len(stmt) :
    IsFromOrJoin(stmt[i]) =>
      \E j \in (i + 1)..Len(stmt) :
        IsIdentifier(stmt[j]) /\ PrevSignificant(stmt, j) = i

\* C7 (as claimed; the code violates it): on an input that is one statement, a SELECT
\* whose FROM and JOIN keywords each have a table, WhitelistedTablesRule passes when every table in a
\* FROM/JOIN position (delimiters stripped, case-folded) is allowed, and fails with
\* "Access to table/object '<name>' is not allowed." naming a table that is not,
\* when one occurs at any such position: later tables of a FROM list and targets of
\* qualified joins included.
C7_WhitelistedTables ==
  \A c \in Callers : \A k \in CallsOf(c, "WhitelistedTablesRule") :
    LET statements == StatementsOf(log[c][k].q)
        v          == log[c][k].v
        allowed    == AllowedNames(rules[log[c][k].at])
    IN  (/\ ~ParserRaises(log[c][k].q)
         /\ Len(Parse(log[c][k].q).statements) = 1
         /\ Len(statements) = 1
         /\ IsSelectStatement(statements[1])
         /\ EveryFromHasTable(statements[1])) =>
          IF ReferencedTables(statements[1]) \subseteq allowed
          THEN v.ok
          ELSE /\ ~v.ok
               /\ v.text = "Access to table/object '{}' is not allowed."
               /\ v.arg \in ReferencedTables(statements[1]) \ allowed

\* C8: no fault escapes validation: no validate call and no execute_rules call ends
\* in an exception; when the parser raises in OnlySelectStatementsRule or
\* WhitelistedTablesRule the rule returns (False, its parsing-error message with the
\* exception in it); execute_rules makes at most one validate call per rule and what
\* it returns is a (bool, str) pair.
C8_NoFaultEscapes ==
  \A c \in Callers :
    /\ pc[c] # "raised"
    /\ Len(log[c]) <= Len(rules)
    /\ pc[c] = "returned" => (ret[c].raised = FALSE /\ ret[c].ok \in BOOLEAN)
    /\ \A k \in 1..Len(log[c]) :
         LET v    == log[c][k].v
             kind == rules[log[c][k].at].kind
         IN  /\ ~v.raised
             /\ (ParserRaises(log[c][k].q) /\ kind # "ForbiddenKeywordsRule") =>
                  /\ ~v.ok
                  /\ v.arg = SQLParseError
                  /\ v.text = IF kind = "OnlySelectStatementsRule"
                              THEN "SQL parsing error during statement type check: {}"
                              ELSE "SQL parsing error during table whitelist check: {}"

\* C8 witness: the parser raised inside WhitelistedTablesRule and the executor
\* returned the rule's parsing-error verdict.
C8_Witness ==
  \E c \in Callers :
    /\ pc[c] = "returned"
    /\ Len(log[c]) >= 1
    /\ rules[Len(log[c])].kind = "WhitelistedTablesRule"
    /\ ParserRaises(sql[c])
    /\ ret[c].text = "SQL parsing error during table whitelist check: {}"

\* C9 (as claimed): every verdict of a rule's validate and of execute_rules has an
\* empty diagnostic exactly when it is a pass.
C9_Original ==
  \A c \in Callers :
    /\ \A k \in 1..Len(log[c]) : IsEmptyMsg(log[c][k].v) <=> log[c][k].v.ok
    /\ pc[c] = "returned" => (IsEmptyMsg(ret[c]) <=> ret[c].ok)

\* C9 (amended): every verdict of a rule's validate has an empty diagnostic exactly
\* when it is a pass; the verdict of execute_rules always has a non-empty diagnostic:
\* the failing rule's on a fail, "All rules passed." on a pass.
C9_VerdictInvariant ==
  \A c \in Callers :
    /\ \A k \in 1..Len(log[c]) : IsEmptyMsg(log[c][k].v) <=> log[c][k].v.ok
    /\ pc[c] = "returned" =>
         /\ ~IsEmptyMsg(ret[c])
         /\ ret[c].ok => ret[c].text = "All rules passed."
         /\ ~ret[c].ok => ret[c].text = log[c][Len(log[c])].v.text

\* C9 witness: the three rules each passed with an empty diagnostic and execute_rules
\* returned a pass.
C9_Witness ==
  \E c \in Callers :
    /\ pc[c] = "returned"
    /\ ret[c].ok
    /\ Len(log[c]) = 3
    /\ \A k \in 1..3 : log[c][k].v.ok /\ IsEmptyMsg(log[c][k].v)

\* ---- concurrent and repeated calls
\* execute_rules(q) run alone on the rule list rs, from rule i on.
RECURSIVE RunAlone(_, _, _)
RunAlone(rs, q, i) ==
  IF i > Len(rs) THEN Verdict(TRUE, "All rules passed.", <<>>)
  ELSE IF ~Validate(rs[i], q).ok
  THEN Verdict(FALSE, Validate(rs[i], q).text, Validate(rs[i], q).arg)
  ELSE RunAlone(rs, q, i + 1)

\* C10: however concurrent and repeated calls of a shared executor interleave, each
\* call returns the verdict it returns when run alone on the configured rules, and
\* no step changes the executor's rule sequence or a rule's allowed tables.
C10_Reentrant ==
  /\ [](\A c \in Callers :
          pc[c] = "returned" => ret[c] = RunAlone(DeployedRules, sql[c], 1))
  /\ [][rules' = rules]_vars

\* C10 witness: one caller has its verdict while another, given a different string,
\* is between two rules of the same executor.
C10_Witness ==
  \E c, d \in Callers :
    /\ c # d
    /\ pc[c] = "returned" /\ ~ret[c].ok
    /\ pc[d] = "execute_rules" /\ idx[d] = 3
    /\ sql[c] # sql[d]

\* ---- a subquery as a table source
\* Token j is the bracket that opens the parenthesized group standing where a FROM or
\* JOIN expects its table.
IsSubquerySource(toks, j) ==
  /\ toks[j].ttype = T_Punctuation
  /\ toks[j].value = <<"(">>
  /\ PrevSignificant(toks, j) # 0
  /\ IsFromOrJoin(toks[PrevSignificant(toks, j)])

\* Every FROM and JOIN of the statement is followed by an identifier or by a
\* parenthesized group.
EveryFromHasSource(stmt) ==
  \A i \in 1..Len(stmt) :
    IsFromOrJoin(stmt[i]) =>
      \E j \in (i + 1)..Len(stmt) :
        /\ PrevSignificant(stmt, j) = i
        /\ IsIdentifier(stmt[j]) \/ IsSubquerySource(stmt, j)

\* C11 (as claimed; the code violates it): on a single SELECT in which a FROM or JOIN
\* is followed by a parenthesized group, WhitelistedTablesRule does not take the group
\* for a table name and its verdict is decided by the FROM/JOIN targets alone, the
\* nested ones included: pass when all of them are allowed, fail when one is not.
C11_SubqueryTableSource ==
  \A c \in Callers : \A k \in CallsOf(c, "WhitelistedTablesRule") :
    LET statements == StatementsOf(log[c][k].q)
        v          == log[c][k].v
        allowed    == AllowedNames(rules[log[c][k].at])
    IN  (/\ ~ParserRaises(log[c][k].q)
         /\ Len(Parse(log[c][k].q).statements) = 1
         /\ Len(statements) = 1
         /\ IsSelectStatement(statements[1])
         /\ EveryFromHasSource(statements[1])
         /\ \E j \in 1..Len(statements[1]) : IsSubquerySource(statements[1], j)) =>
          (v.ok <=> ReferencedTables(statements[1]) \subseteq allowed)

\* ---- a FROM or JOIN with nothing after it
\* A keyword token that reads FROM or JOIN.
IsFromJoinKeyword(tok) ==
  /\ InType(tok.ttype, T_Keyword)
  /\ Upper(tok.value) \in {<<"F","R","O","M">>, <<"J","O","I","N">>}

\* The FROM/JOIN at index i is followed by whitespace only, or by nothing, up to the
\* end of the stream.
NothingFollows(stream, i) ==
  /\ IsFromJoinKeyword(stream[i])
  /\ \A j \in (i + 1)..Len(stream) : stream[j].ttype = T_Whitespace

\* The target of a FROM/JOIN before index i is not an allowed name.
EarlierTargetRejected(stream, i, allowed) ==
  \E p \in 1..(i - 1) : \E j \in (p + 1)..Len(stream) :
    /\ IsFromJoinKeyword(stream[p])
    /\ PrevSignificant(stream, j) = p
    /\ BareName(stream[j]) \notin allowed

\* C12: when, in the flattened token stream of the first statement, a FROM or JOIN
\* keyword is followed only by whitespace or by nothing up to the end of the stream,
\* and no earlier FROM/JOIN target was rejected, WhitelistedTablesRule returns
\* (False, "Could not identify table name after FROM/JOIN clause.") and never passes.
C12_FailClosed ==
  \A c \in Callers : \A k \in CallsOf(c, "WhitelistedTablesRule") :
    LET parsed  == Parse(log[c][k].q)
        v       == log[c][k].v
        allowed == AllowedNames(rules[log[c][k].at])
    IN  (~parsed.raised /\ parsed.statements # <<>>) =>
          \A i \in 1..Len(parsed.statements[1]) :
            (/\ NothingFollows(parsed.statements[1], i)
             /\ ~EarlierTargetRejected(parsed.statements[1], i, allowed)) =>
               /\ ~v.ok
               /\ v.text = "Could not identify table name after FROM/JOIN clause."
               /\ v.arg = <<>>

\* C12 witness: after a FROM with an allowed table, a JOIN ends the string and the
\* rule returned the could-not-identify verdict.
C12_Witness ==
  \E c \in Callers : \E k \in CallsOf(c, "WhitelistedTablesRule") :
    LET parsed == Parse(log[c][k].q)
    IN  /\ ~parsed.raised /\ parsed.statements # <<>>
        /\ \E i \in 2..Len(parsed.statements[1]) :
             /\ NothingFollows(parsed.statements[1], i)
             /\ \E p \in 1..(i - 1) : IsFromJoinKeyword(parsed.statements[1][p])
        /\ log[c][k].v.text = "Could not identify table name after FROM/JOIN clause."
=============================================================================
